---------------------------- MODULE Spec2Model ----------------------------
(***************************************************************************)
(* A model of the hex-overlay web application (src/webapp/src/App.tsx):    *)
(* pointInPolygon, overlayHexGrid, computeHexGrid, annotateHexCoords and   *)
(* the App component's polygon editing and rendering handlers.             *)
(*                                                                         *)
(* Numbers.  The program computes with JavaScript numbers.  Every quantity *)
(* it derives from integer inputs lies in the field Q(sqrt 3): the only    *)
(* irrational it introduces is Math.sqrt(3), and cos/sin are taken at      *)
(* multiples of 60 degrees.  A number is modelled exactly as a pair        *)
(* <<a, b>> standing for (a + b*sqrt(3)) / 8; the eighth is the smallest   *)
(* fraction of the hex diameter the code forms (hexHeight / 8).  Rounding  *)
(* of floating point is not modelled.                                      *)
(***************************************************************************)
EXTENDS Integers, Sequences, FiniteSets, TLC

VARIABLES
    \* pointInPolygon(point, vs) called repeatedly on one input: the values returned
    point, vs, results,
    \* the divisors yj - yi of the divisions the last call evaluated
    divisions,
    \* one run of the body of img.onload (App.tsx 723-746): the image size and
    \* the state handleGenerate closed over
    render,
    \* the statement about to run
    pc,
    \* overlayHexGrid's locals row, y, x, halfHeightOffsetCounter
    ov,
    \* every hex overlayHexGrid has enumerated, in order, with its six points
    \* and whether it was stroked
    visited,
    \* computeHexGrid's locals row, y, x, col and its array hexes
    cg, hexes,
    \* the grid computeHexGrid returned: rowCount, colCount
    counts,
    \* every hex annotateHexCoords has gone through, in order, with its six
    \* points and whether fillText was called for it
    annotated,
    \* the 2d context of mapCanvas as overlayHexGrid uses it: strokeStyle,
    \* lineWidth and the path and stroke calls made, in order
    ctx,
    \* when img.onload runs again: the input and the outcome of each earlier run
    finished,
    \* the App component's state (App.tsx 662-674); imageFile counts the files
    \* chosen so far, 0 standing for null
    imageFile, tool, vertices, polygons, selectedPolygons,
    shouldDrawCoordinates, downloadUrl,
    \* the identity the next array added to polygons gets: includes() and
    \* indexOf() compare polygons by reference
    nextPolygon,
    \* the img.onload callbacks of handleGenerate that have not run yet, each with
    \* the state its handleGenerate closed over, in the order of the requests
    pending,
    \* what the last img.onload put on mapCanvas: the image and the arguments of
    \* its overlayHexGrid and annotateHexCoords calls
    canvas

pipVars == <<point, vs, results, divisions>>
gridVars == <<render, pc, ov, visited, cg, hexes, counts, annotated, ctx, finished>>
uiVars == <<imageFile, tool, vertices, polygons, selectedPolygons,
            shouldDrawCoordinates, downloadUrl, nextPolygon, pending, canvas>>
vars == <<pipVars, gridVars, uiVars>>
\* what a step of the render, a call of pointInPolygon, and a handler of the
\* App component leave alone
outsideRender == <<pipVars, uiVars, finished>>
outsidePip == <<gridVars, uiVars>>
outsideUi == <<pipVars, gridVars>>

-----------------------------------------------------------------------------
(* Exact arithmetic in Q(sqrt 3), scaled by 8 *)

Num(n) == <<8 * n, 0>>
Zero == <<0, 0>>
Add(p, q) == <<p[1] + q[1], p[2] + q[2]>>
Sub(p, q) == <<p[1] - q[1], p[2] - q[2]>>
Neg(p) == <<0 - p[1], 0 - p[2]>>
\* p * k and p / k for an integer k (the divisions of the code are exact at
\* this scale for integer pixelsPerMile * hexMiles)
Times(p, k) == <<p[1] * k, p[2] * k>>
Over(p, k) == <<p[1] \div k, p[2] \div k>>
\* Math.sqrt(3) * p
Sqrt3Times(p) == <<3 * p[2], p[1]>>
\* the product of two numbers, at scale 64
Mul(p, q) == <<p[1] * q[1] + 3 * p[2] * q[2], p[1] * q[2] + p[2] * q[1]>>

\* the k-th partial quotient of sqrt(3) = [1; 1, 2, 1, 2, ...]
Sqrt3Term(k) == IF k = 0 THEN 1 ELSE IF k % 2 = 1 THEN 1 ELSE 2

RECURSIVE GtTail(_, _, _)
\* a/b > [t_k; t_k+1, ...], the k-th tail of the continued fraction of
\* sqrt(3), for integers a >= 0 and b > 0: Euclid's algorithm on a/b, compared
\* quotient by quotient.  Exact, since a tail is irrational, and free of
\* large products.
GtTail(a, b, k) ==
    LET q == a \div b
        rem == a % b
    IN  IF q > Sqrt3Term(k) THEN TRUE
        ELSE IF q < Sqrt3Term(k) THEN FALSE
        ELSE IF rem = 0 THEN FALSE
        ELSE ~GtTail(b, rem, k + 1)

\* a > b * sqrt(3) for integers a, b > 0
GtSqrt3(a, b) == GtTail(a, b, 0)

Sgn(n) == IF n > 0 THEN 1 ELSE IF n < 0 THEN -1 ELSE 0

\* the sign of a + b*sqrt(3)
Sign(p) ==
    LET a == p[1]
        b == p[2]
    IN  IF b = 0 THEN Sgn(a)
        ELSE IF a = 0 THEN Sgn(b)
        ELSE IF (a > 0) = (b > 0) THEN Sgn(a)
        ELSE IF a > 0 THEN (IF GtSqrt3(a, 0 - b) THEN 1 ELSE -1)
        ELSE (IF GtSqrt3(0 - a, b) THEN -1 ELSE 1)

Less(p, q) == Sign(Sub(q, p)) > 0
Greater(p, q) == Sign(Sub(p, q)) > 0
LessEq(p, q) == Sign(Sub(q, p)) >= 0

\* interface Point { x: number; y: number }
Pt(px, py) == [x |-> px, y |-> py]
\* a point at integer pixel coordinates
PixelPt(px, py) == Pt(Num(px), Num(py))

-----------------------------------------------------------------------------
(* pointInPolygon: ray casting, App.tsx 473-485.  Sequences are 1-based:    *)
(* the code's index i is i - 1 here, and its j = vs.length - 1 is Len(vs).  *)

\* mutant of XBeforeIntercept: the sign of the divisor yj - yi is ignored
XBeforeInterceptUnsigned(p, vi, vj) ==
    LET d == Sub(vj.y, vi.y)
        lhs == Mul(Sub(p.x, vi.x), d)
        rhs == Mul(Sub(vj.x, vi.x), Sub(p.y, vi.y))
    IN  Sign(Sub(rhs, lhs)) > 0

\* x < ((xj - xi) * (y - yi)) / (yj - yi) + xi, the division carried to the
\* left-hand side: exact for yj # yi, the only case in which && evaluates it
XBeforeIntercept(p, vi, vj) ==
    LET d == Sub(vj.y, vi.y)
        lhs == Mul(Sub(p.x, vi.x), d)
        rhs == Mul(Sub(vj.x, vi.x), Sub(p.y, vi.y))
    IN  IF Sign(d) > 0 THEN Sign(Sub(rhs, lhs)) > 0
        ELSE Sign(Sub(rhs, lhs)) < 0

\* const intersect = ((yi > y) !== (yj > y)) && (x < ... )
Intersect(p, vi, vj) ==
    /\ Greater(vi.y, p.y) # Greater(vj.y, p.y)
    /\ XBeforeIntercept(p, vi, vj)

RECURSIVE DivisionsEager(_, _, _, _)
\* mutant of Divisions: the right operand of && is evaluated for every edge
DivisionsEager(p, poly, i, j) ==
    IF i > Len(poly) THEN <<>>
    ELSE <<Sub(poly[j].y, poly[i].y)>> \o DivisionsEager(p, poly, i + 1, i)

RECURSIVE Divisions(_, _, _, _)
\* the divisors of the divisions evaluated from index i on: && evaluates its
\* right operand, and with it the division, only when (yi > y) !== (yj > y)
Divisions(p, poly, i, j) ==
    IF i > Len(poly) THEN <<>>
    ELSE (IF Greater(poly[i].y, p.y) # Greater(poly[j].y, p.y)
          THEN <<Sub(poly[j].y, poly[i].y)>> ELSE <<>>)
            \o Divisions(p, poly, i + 1, i)

RECURSIVE PipLoopSticky(_, _, _, _, _)
\* mutant of PipLoop: a crossing sets the flag instead of toggling it
PipLoopSticky(p, poly, i, j, in) ==
    IF i > Len(poly) THEN in
    ELSE PipLoopSticky(p, poly, i + 1, i, in \/ Intersect(p, poly[i], poly[j]))

RECURSIVE PipLoop(_, _, _, _, _)
\* for (let i = 0, j = vs.length - 1; i < vs.length; j = i++)
PipLoop(p, poly, i, j, in) ==
    IF i > Len(poly) THEN in
    ELSE PipLoop(p, poly, i + 1, i,
                 IF Intersect(p, poly[i], poly[j]) THEN ~in ELSE in)

\* mutant of pointInPolygon: the closing edge (vs[n-1], vs[0]) is left out
pointInPolygonOpen(p, poly) == PipLoop(p, poly, 2, 1, FALSE)

pointInPolygon(p, poly) == PipLoop(p, poly, 1, Len(poly), FALSE)

-----------------------------------------------------------------------------
(* overlayHexGrid, App.tsx 487-565 *)

\* const PADDING = 100
PADDING == 100

hexDiameter(ppm, miles) == Num(ppm * miles)
\* mutant of hexRadius: the diameter is taken for the radius, as computeHexGrid
\* does
hexRadiusWhole(ppm, miles) == hexDiameter(ppm, miles)
\* const hexRadius = hexDiameter / 2
hexRadius(ppm, miles) == Over(hexDiameter(ppm, miles), 2)
hexWidth(ppm, miles) == Times(hexRadius(ppm, miles), 2)
hexHeight(ppm, miles) == Sqrt3Times(hexRadius(ppm, miles))
\* 0.75 * hexWidth
hSpacing(ppm, miles) == Over(Times(hexWidth(ppm, miles), 3), 4)
vSpacing(ppm, miles) == hexHeight(ppm, miles)

\* twice Math.cos(i * 60 degrees), and Math.sin(i * 60 degrees) in units of
\* sqrt(3)/2, for i = 0..5
Cos2(i) == <<2, 1, -1, -2, -1, 1>>[i + 1]
\* mutant of SinH: the sine of -i * 60 degrees
SinHClockwise(i) == <<0, -1, -1, 0, 1, 1>>[i + 1]
SinH(i) == <<0, 1, 1, 0, -1, -1>>[i + 1]
\* r * Math.cos(theta) and r * Math.sin(theta), theta = (i * 60) * (Math.PI / 180)
RCos(r, i) == Over(Times(r, Cos2(i)), 2)
RSin(r, i) == Over(Times(Sqrt3Times(r), SinH(i)), 2)

\* mutant of OuterCond: y is compared with a bound that moves along with it
OuterCondMoving(yy, height, ppm, miles) == Less(yy, Add(yy, vSpacing(ppm, miles)))
\* while (y < height + vSpacing)
OuterCond(yy, height, ppm, miles) == Less(yy, Add(Num(height), vSpacing(ppm, miles)))
\* mutant of InnerCond: the margin of one hSpacing of the earlier overlay
InnerCondNarrow(xx, width, ppm, miles) ==
    Less(xx, Add(Num(width), hSpacing(ppm, miles)))
\* while (x < width + hSpacing * 2)
InnerCond(xx, width, ppm, miles) ==
    Less(xx, Add(Num(width), Times(hSpacing(ppm, miles), 2)))

\* const yOffset = (row % 2 === 0) ? 0 : vSpacing / 2
yOffset(row, ppm, miles) == IF row % 2 = 0 THEN Zero ELSE Over(vSpacing(ppm, miles), 2)

\* mutant of HexPoint: the per-hex shift lands on the odd counters
HexPointOddShift(i, xx, yy, row, counter, ppm, miles) ==
    LET px == Add(xx, RCos(hexRadius(ppm, miles), i))
        py == Add(Add(yy, yOffset(row, ppm, miles)), RSin(hexRadius(ppm, miles), i))
    IN  Pt(px, IF counter % 2 = 1 THEN Add(py, Over(hexHeight(ppm, miles), 2)) ELSE py)

\* mutant of HexPoint: the per-hex vertical shift is left out
HexPointNoShift(i, xx, yy, row, counter, ppm, miles) ==
    Pt(Add(xx, RCos(hexRadius(ppm, miles), i)),
       Add(Add(yy, yOffset(row, ppm, miles)), RSin(hexRadius(ppm, miles), i)))

\* the body of for (let i = 0; i < 6; i++): the point pushed for index i
HexPoint(i, xx, yy, row, counter, ppm, miles) ==
    LET px == Add(xx, RCos(hexRadius(ppm, miles), i))
        py == Add(Add(yy, yOffset(row, ppm, miles)), RSin(hexRadius(ppm, miles), i))
    IN  Pt(px, IF counter % 2 = 0 THEN Add(py, Over(hexHeight(ppm, miles), 2)) ELSE py)

HexPoints(xx, yy, row, counter, ppm, miles) ==
    [k \in 1..6 |-> HexPoint(k - 1, xx, yy, row, counter, ppm, miles)]

\* mutant of shouldDrawHex: a hex is kept as soon as one point passes
shouldDrawHexSome(points, polygonsToSkip, polygonsToInclude) ==
    \E k \in 1..Len(points) :
        IF \E n \in 1..Len(polygonsToSkip) : pointInPolygon(points[k], polygonsToSkip[n])
        THEN \E n \in 1..Len(polygonsToInclude) : pointInPolygon(points[k], polygonsToInclude[n])
        ELSE TRUE

\* mutant of shouldDrawHex: a vertex in an exclude polygon is rescued only
\* when every include polygon contains it
shouldDrawHexEvery(points, polygonsToSkip, polygonsToInclude) ==
    \A k \in 1..Len(points) :
        IF \E n \in 1..Len(polygonsToSkip) : pointInPolygon(points[k], polygonsToSkip[n])
        THEN \A n \in 1..Len(polygonsToInclude) :
                 pointInPolygon(points[k], polygonsToInclude[n])
        ELSE TRUE

\* const shouldDrawHex = points.every(pt => { ... }), App.tsx 540-548
shouldDrawHex(points, polygonsToSkip, polygonsToInclude) ==
    \A k \in 1..Len(points) :
        IF \E n \in 1..Len(polygonsToSkip) : pointInPolygon(points[k], polygonsToSkip[n])
        THEN (IF \E n \in 1..Len(polygonsToInclude) :
                    pointInPolygon(points[k], polygonsToInclude[n])
              THEN TRUE ELSE FALSE)
        ELSE TRUE

\* a call of a method of ctx with its arguments
Call(op, args) == [op |-> op, args |-> args]

\* mutant of StrokeCalls: the path of a rejected hex is built too, only its
\* stroke is left out
StrokeCallsPathAlways(points, draw) ==
    <<Call("beginPath", <<>>), Call("moveTo", <<points[1].x, points[1].y>>)>>
        \o [i \in 1..5 |-> Call("lineTo", <<points[i + 1].x, points[i + 1].y>>)]
        \o <<Call("closePath", <<>>)>>
        \o (IF draw THEN <<Call("stroke", <<>>)>> ELSE <<>>)

\* if (shouldDrawHex) { beginPath; moveTo / lineTo over points; closePath; stroke }
StrokeCalls(points, draw) ==
    IF draw
    THEN <<Call("beginPath", <<>>)>>
            \o [i \in 1..6 |->
                    Call(IF i = 1 THEN "moveTo" ELSE "lineTo", <<points[i].x, points[i].y>>)]
            \o <<Call("closePath", <<>>), Call("stroke", <<>>)>>
    ELSE <<>>

\* ctx.strokeStyle = color; ctx.lineWidth = 1
CtxEntry(color) == [strokeStyle |-> color, lineWidth |-> 1, calls |-> <<>>]

\* the loops are followed for at most MaxRows rows and MaxHexes hexes: more than
\* any render with a positive scale below takes
MaxRows == 30
MaxHexes == 440

\* let row = -1; let y = -vSpacing / 2
OverlayEntry(ppm, miles) ==
    [row |-> -1, y |-> Neg(Over(vSpacing(ppm, miles), 2)), x |-> Zero,
     halfHeightOffsetCounter |-> 0]

\* the outer loop's test succeeds: row += 1, the row's counter and x are reset
OverlayRow ==
    /\ pc = "overlayOuter"
    /\ ov.row + 1 < MaxRows
    /\ OuterCond(ov.y, render.height, render.ppm, render.miles)
    /\ ov' = [ov EXCEPT !.row = ov.row + 1, !.halfHeightOffsetCounter = 0, !.x = Zero]
    /\ pc' = "overlayInner"
    /\ UNCHANGED <<render, visited, cg, hexes, counts, annotated>>
    /\ UNCHANGED ctx
    /\ UNCHANGED outsideRender

\* one pass of the inner loop: the six points, the mask, the stroke, x += hSpacing
OverlayHex ==
    /\ pc = "overlayInner"
    /\ Len(visited) < MaxHexes
    /\ InnerCond(ov.x, render.width, render.ppm, render.miles)
    /\ LET counter == ov.halfHeightOffsetCounter + 1
           points == HexPoints(ov.x, ov.y, ov.row, counter, render.ppm, render.miles)
           draw == shouldDrawHex(points, render.polygonsToSkip, render.polygonsToInclude)
       IN  /\ visited' = Append(visited,
                   [row |-> ov.row, col |-> counter - 1, x |-> ov.x, y |-> ov.y,
                    points |-> points, stroked |-> draw])
           /\ ctx' = [ctx EXCEPT !.calls = @ \o StrokeCalls(points, draw)]
           /\ ov' = [ov EXCEPT !.halfHeightOffsetCounter = counter,
                               !.x = Add(ov.x, hSpacing(render.ppm, render.miles))]
    /\ UNCHANGED <<render, pc, cg, hexes, counts, annotated>>
    /\ UNCHANGED outsideRender

\* the inner loop's test fails: y += vSpacing / 2
OverlayRowEnd ==
    /\ pc = "overlayInner"
    /\ ~InnerCond(ov.x, render.width, render.ppm, render.miles)
    /\ ov' = [ov EXCEPT !.y = Add(ov.y, Over(vSpacing(render.ppm, render.miles), 2))]
    /\ pc' = "overlayOuter"
    /\ UNCHANGED <<render, visited, cg, hexes, counts, annotated>>
    /\ UNCHANGED ctx
    /\ UNCHANGED outsideRender

\* the outer loop's test fails: overlayHexGrid returns, and handleGenerate goes
\* on to the coordinates when shouldDrawCoordinates is set (App.tsx 734-741)
OverlayReturn ==
    /\ pc = "overlayOuter"
    /\ ~OuterCond(ov.y, render.height, render.ppm, render.miles)
    /\ pc' = IF render.shouldDrawCoordinates THEN "computeOuter" ELSE "done"
    /\ UNCHANGED <<render, ov, visited, cg, hexes, counts, annotated>>
    /\ UNCHANGED ctx
    /\ UNCHANGED outsideRender

-----------------------------------------------------------------------------
(* computeHexGrid, App.tsx 572-602, called with the canvas size              *)
(* mapCanvas.width = img.width + PADDING * 2 (App.tsx 723-724, 739)         *)

\* const hexRadius = ppm * miles
cgHexRadius(ppm, miles) == Num(ppm * miles)
cgHexWidth(ppm, miles) == Times(cgHexRadius(ppm, miles), 2)
cgHexHeight(ppm, miles) == Sqrt3Times(cgHexRadius(ppm, miles))
cgHSpacing(ppm, miles) == Over(Times(cgHexWidth(ppm, miles), 3), 4)
cgVSpacing(ppm, miles) == cgHexHeight(ppm, miles)

canvasWidth == render.width + PADDING * 2
canvasHeight == render.height + PADDING * 2

\* y < height + vSpacing
cgOuterCond(yy, height, ppm, miles) == Less(yy, Add(Num(height), cgVSpacing(ppm, miles)))
\* x < width + hSpacing
cgInnerCond(xx, width, ppm, miles) == Less(xx, Add(Num(width), cgHSpacing(ppm, miles)))
\* const xOffset = row % 2 === 1 ? hSpacing / 2 : 0
cgXOffset(row, ppm, miles) == IF row % 2 = 1 THEN Over(cgHSpacing(ppm, miles), 2) ELSE Zero

\* let row = -1; y = -vSpacing/4
ComputeEntry(ppm, miles) ==
    [row |-> -1, y |-> Neg(Over(cgVSpacing(ppm, miles), 4)), x |-> Zero, col |-> 0]

\* the outer for's test succeeds: row++, col = 0, x = xOffset
ComputeRow ==
    /\ pc = "computeOuter"
    /\ cg.row + 1 < MaxRows
    /\ cgOuterCond(cg.y, canvasHeight, render.ppm, render.miles)
    /\ cg' = [cg EXCEPT !.row = cg.row + 1, !.col = 0,
                        !.x = cgXOffset(cg.row + 1, render.ppm, render.miles)]
    /\ pc' = "computeInner"
    /\ UNCHANGED <<render, ov, visited, hexes, counts, annotated>>
    /\ UNCHANGED ctx
    /\ UNCHANGED outsideRender

\* one pass of the inner for: hexes.push({ row, col, x, y }); col++; x += hSpacing
ComputeHex ==
    /\ pc = "computeInner"
    /\ Len(hexes) < MaxHexes
    /\ cgInnerCond(cg.x, canvasWidth, render.ppm, render.miles)
    /\ hexes' = Append(hexes, [row |-> cg.row, col |-> cg.col, x |-> cg.x, y |-> cg.y])
    /\ cg' = [cg EXCEPT !.col = cg.col + 1,
                        !.x = Add(cg.x, cgHSpacing(render.ppm, render.miles))]
    /\ UNCHANGED <<render, pc, ov, visited, counts, annotated>>
    /\ UNCHANGED ctx
    /\ UNCHANGED outsideRender

\* the inner for's test fails: y += vSpacing/4
ComputeRowEnd ==
    /\ pc = "computeInner"
    /\ ~cgInnerCond(cg.x, canvasWidth, render.ppm, render.miles)
    /\ cg' = [cg EXCEPT !.y = Add(cg.y, Over(cgVSpacing(render.ppm, render.miles), 4))]
    /\ pc' = "computeOuter"
    /\ UNCHANGED <<render, ov, visited, hexes, counts, annotated>>
    /\ UNCHANGED ctx
    /\ UNCHANGED outsideRender

\* Math.max() of no argument
NegInfinity == "-Infinity"
MaxOf(S) == CHOOSE m \in S : \A n \in S : n <= m
\* const colCount = Math.max(...new Set(hexes.map(h => h.col)).values())
ColCount(hs) ==
    IF hs = <<>> THEN NegInfinity ELSE MaxOf({hs[k].col : k \in 1..Len(hs)})

\* the outer for's test fails: colCount and rowCount = row + 1 are returned
ComputeReturn ==
    /\ pc = "computeOuter"
    /\ ~cgOuterCond(cg.y, canvasHeight, render.ppm, render.miles)
    /\ counts' = [rowCount |-> cg.row + 1, colCount |-> ColCount(hexes)]
    /\ pc' = "annotate"
    /\ UNCHANGED <<render, ov, visited, cg, hexes, annotated>>
    /\ UNCHANGED ctx
    /\ UNCHANGED outsideRender

-----------------------------------------------------------------------------
(* annotateHexCoords, App.tsx 605-659 *)

\* const hexRadius = ppm * miles
anHexRadius(ppm, miles) == Num(ppm * miles)
anHexHeight(ppm, miles) == Sqrt3Times(anHexRadius(ppm, miles))
\* const yOffset = hexHeight / 8
anYOffset(ppm, miles) == Over(anHexHeight(ppm, miles), 8)

\* the point pushed for index i, App.tsx 628-641
LabelPoint(i, xx, yy, col, ppm, miles) ==
    LET px == Add(xx, RCos(anHexRadius(ppm, miles), i))
        py == Add(Add(yy, anYOffset(ppm, miles)), RSin(anHexRadius(ppm, miles), i))
    IN  Pt(px, IF col % 2 = 0 THEN Add(py, Over(anHexHeight(ppm, miles), 2)) ELSE py)

LabelPoints(xx, yy, col, ppm, miles) ==
    [k \in 1..6 |-> LabelPoint(k - 1, xx, yy, col, ppm, miles)]

\* const shouldDrawHex = points.every(pt => { ... }), App.tsx 644-652
shouldDrawLabel(points, polygonsToSkip, polygonsToInclude) ==
    \A k \in 1..Len(points) :
        IF \E n \in 1..Len(polygonsToSkip) : pointInPolygon(points[k], polygonsToSkip[n])
        THEN (IF \E n \in 1..Len(polygonsToInclude) :
                    pointInPolygon(points[k], polygonsToInclude[n])
              THEN TRUE ELSE FALSE)
        ELSE TRUE

RECURSIVE DigitsOf(_)
\* the decimal digits of a natural number, as the characters of its string
DigitsOf(n) ==
    LET digit == <<"0", "1", "2", "3", "4", "5", "6", "7", "8", "9">>[(n % 10) + 1]
    IN  IF n < 10 THEN <<digit>> ELSE Append(DigitsOf(n \div 10), digit)
\* `${n}` for an integer n, as the sequence of its characters
NumberText(n) == IF n < 0 THEN <<"-">> \o DigitsOf(0 - n) ELSE DigitsOf(n)
\* `${q},${r}`
LabelText(q, r) == NumberText(q) \o <<",">> \o NumberText(r)

\* mutant of LabelCoords: colCount is taken for the number of columns
LabelCoordsByCount(row, col, rowCount, colCount) ==
    [q |-> col - ((colCount + 1) \div 2), r |-> (rowCount \div 2) - row]

\* centerRow, centerCol, q and r of the hex at (row, col), App.tsx 618-619, 655-656
LabelCoords(row, col, rowCount, colCount) ==
    LET centerRow == rowCount \div 2
        centerCol == colCount \div 2
    IN  [q |-> col - centerCol, r |-> centerRow - row]

\* one callback of hexes.forEach: the six points, the mask, and for a kept hex
\* ctx.fillText(`${q},${r}`, x, y + yOffset)
AnnotateHex ==
    /\ pc = "annotate"
    /\ Len(annotated) < Len(hexes)
    /\ LET h == hexes[Len(annotated) + 1]
           points == LabelPoints(h.x, h.y, h.col, render.ppm, render.miles)
           keep == shouldDrawLabel(points, render.polygonsToSkip, render.polygonsToInclude)
           qr == LabelCoords(h.row, h.col, counts.rowCount, counts.colCount)
       IN  annotated' = Append(annotated,
               [row |-> h.row, col |-> h.col, x |-> h.x, y |-> h.y, points |-> points,
                labeled |-> keep,
                q |-> qr.q, r |-> qr.r, text |-> LabelText(qr.q, qr.r),
                at |-> Pt(h.x, Add(h.y, anYOffset(render.ppm, render.miles)))])
    /\ UNCHANGED <<render, pc, ov, visited, cg, hexes, counts>>
    /\ UNCHANGED ctx
    /\ UNCHANGED outsideRender

\* forEach has gone through every hex: annotateHexCoords returns
AnnotateReturn ==
    /\ pc = "annotate"
    /\ Len(annotated) = Len(hexes)
    /\ pc' = "done"
    /\ UNCHANGED <<render, ov, visited, cg, hexes, counts, annotated>>
    /\ UNCHANGED ctx
    /\ UNCHANGED outsideRender

-----------------------------------------------------------------------------
\* the variables of the pointInPolygon calls, and of the render, at rest
PipIdle ==
    /\ point = PixelPt(0, 0)
    /\ vs = <<>>
    /\ results = <<>>
    /\ divisions = <<>>
RenderIdle ==
    /\ render = [width |-> 0, height |-> 0, ppm |-> 1, miles |-> 1,
                 polygonsToSkip |-> <<>>, polygonsToInclude |-> <<>>,
                 shouldDrawCoordinates |-> FALSE, color |-> "black"]
    /\ pc = "idle"
    /\ ov = OverlayEntry(1, 1)
    /\ visited = <<>>
    /\ cg = ComputeEntry(1, 1)
    /\ hexes = <<>>
    /\ counts = [rowCount |-> 0, colCount |-> 0]
    /\ annotated = <<>>
    /\ ctx = [strokeStyle |-> "#000000", lineWidth |-> 1, calls |-> <<>>]
    /\ finished = <<>>

\* selectedPolygons is null or a list
Null == [isNull |-> TRUE, list |-> <<>>]
Some(list) == [isNull |-> FALSE, list |-> list]
\* selectedPolygons ?? [] and selectedPolygons || []
OrEmpty(selected) == selected.list
\* mapCanvas before any img.onload has run
BlankCanvas == [image |-> 0, overlay |-> <<>>, annotate |-> <<>>, ops |-> <<>>]
\* the useState initial values of App
UiIdle ==
    /\ imageFile = 0
    /\ tool = "draw"
    /\ vertices = <<>>
    /\ polygons = <<>>
    /\ selectedPolygons = Null
    /\ shouldDrawCoordinates = FALSE
    /\ downloadUrl = <<>>
    /\ nextPolygon = 0
    /\ pending = <<>>
    /\ canvas = BlankCanvas

-----------------------------------------------------------------------------
(* Inputs of the pointInPolygon specification *)

\* polygon vertices lie on even pixel coordinates 0, 2, .., 2 * MaxCoord and
\* test points on every integer from -1 to 2 * MaxCoord + 1, so that points
\* fall inside, outside, on edges and on vertices
MaxCoord == 1
\* the longest vertex list of the general inputs
MaxLen == 3
\* rectangles have corners in 0 .. MaxRect
MaxRect == 3
\* the calls made on one input
MaxCalls == 2

VertexPts == {PixelPt(2 * a, 2 * b) : a \in 0..MaxCoord, b \in 0..MaxCoord}
TestPts == {PixelPt(a, b) : a \in (-1)..(2 * MaxCoord + 1), b \in (-1)..(2 * MaxCoord + 1)}

SeqsUpTo(S, n) == UNION {[1..k -> S] : k \in 0..n}

\* [(a,b),(c,b),(c,d),(a,d)]
Rect(a, b, c, d) == <<PixelPt(a, b), PixelPt(c, b), PixelPt(c, d), PixelPt(a, d)>>

GeneralInputs == {<<p, poly>> : p \in TestPts, poly \in SeqsUpTo(VertexPts, MaxLen)}
RectInputs ==
    {<<PixelPt(px, py), Rect(a, b, c, d)>> :
        px \in (-1)..(MaxRect + 1), py \in (-1)..(MaxRect + 1),
        a \in 0..MaxRect, b \in 0..MaxRect, c \in 0..MaxRect, d \in 0..MaxRect}
\* the square of spec.md section 8, property 2
SquareInputs ==
    {<<PixelPt(px, py), Rect(0, 0, 10, 10)>> : px \in {5, 10, 15}, py \in {0, 5, 10, 15}}

PipInit ==
    /\ \E in \in GeneralInputs \cup RectInputs \cup SquareInputs :
          /\ point = in[1]
          /\ vs = in[2]
    /\ results = <<>>
    /\ divisions = <<>>
    /\ RenderIdle
    /\ UiIdle

\* one call of pointInPolygon(point, vs)
PipCall ==
    /\ Len(results) < MaxCalls
    /\ results' = Append(results, pointInPolygon(point, vs))
    /\ divisions' = Divisions(point, vs, 1, Len(vs))
    /\ UNCHANGED <<point, vs>>
    /\ UNCHANGED outsidePip

SpecPip == PipInit /\ [][PipCall]_vars

-----------------------------------------------------------------------------
(* Inputs of the render specification *)

\* polygons in canvas pixels, placed against the lattice of a 32 pixel hex
\* diameter: ExcludeA and IncludeA hold all six points of the overlay hex of
\* row 1, column 1; IncludeCorner holds one of them; ExcludeL holds all six
\* points of the label hex of row 3, column 1
ExcludeA == Rect(4, 8, 44, 48)
IncludeA == Rect(6, 10, 42, 46)
IncludeCorner == Rect(0, 0, 20, 20)
ExcludeTri == <<PixelPt(48, 0), PixelPt(80, 0), PixelPt(80, 60)>>
ExcludeL == Rect(38, 4, 106, 64)
\* a vertex list of two points
TwoPoints == <<PixelPt(0, 0), PixelPt(80, 80)>>

RenderInput(w, h, ppm, miles, skip, include, coords) ==
    [width |-> w, height |-> h, ppm |-> ppm, miles |-> miles,
     polygonsToSkip |-> skip, polygonsToInclude |-> include,
     shouldDrawCoordinates |-> coords, color |-> "black"]

\* image sizes and scales rendered without polygons
ImageSizes == {<<0, 0>>, <<40, 40>>, <<50, 30>>, <<100, 100>>}
Scales == {<<8, 4>>, <<10, 1>>, <<3, 5>>}
PlainInputs ==
    {RenderInput(sz[1], sz[2], sc[1], sc[2], <<>>, <<>>, FALSE) :
        sz \in ImageSizes, sc \in Scales}

\* <<polygonsToSkip, polygonsToInclude>> of the masked renders
MaskPairs ==
    {<<<<ExcludeA>>, <<>>>>,
     <<<<ExcludeA>>, <<IncludeA>>>>,
     <<<<ExcludeA>>, <<ExcludeA>>>>,
     <<<<ExcludeA>>, <<IncludeCorner>>>>,
     <<<<ExcludeA, ExcludeTri>>, <<ExcludeTri>>>>,
     <<<<ExcludeA, ExcludeTri>>, <<ExcludeA, ExcludeTri>>>>,
     <<<<TwoPoints, ExcludeA>>, <<>>>>,
     <<<<ExcludeA>>, <<TwoPoints>>>>,
     <<<<>>, <<IncludeA>>>>,
     <<<<ExcludeL>>, <<>>>>,
     <<<<ExcludeL>>, <<ExcludeL>>>>}
\* the pairs also rendered with coordinates
LabelPairs ==
    {<<<<ExcludeL>>, <<>>>>,
     <<<<ExcludeL>>, <<ExcludeL>>>>,
     <<<<ExcludeA, ExcludeTri>>, <<ExcludeTri>>>>,
     <<<<>>, <<>>>>}
MaskedInputs ==
    {RenderInput(40, 40, 8, 4, mp[1], mp[2], FALSE) : mp \in MaskPairs}
    \cup {RenderInput(40, 40, 8, 4, mp[1], mp[2], TRUE) : mp \in LabelPairs}

\* a render whose label grid has rows 0..10 and columns 0..11
ElevenInput == RenderInput(1200, 20, 9, 10, <<>>, <<>>, TRUE)

\* renders with a scale that is not positive: the inputs take any number
\* (App.tsx 890, 900)
InvalidInputs ==
    {RenderInput(40, 40, 0, 4, <<>>, <<>>, FALSE),
     RenderInput(0, 40, 8, 0, <<>>, <<>>, FALSE),
     RenderInput(100, 100, -10, 1, <<>>, <<>>, FALSE),
     RenderInput(40, 0, 0, 4, <<>>, <<>>, TRUE)}

\* an image of no width, rendered with coordinates
EmptyInput == RenderInput(0, 40, 8, 4, <<>>, <<>>, TRUE)

\* renders with another outline colour
ColorInputs ==
    {[RenderInput(40, 40, 8, 4, <<ExcludeA>>, <<>>, FALSE) EXCEPT !.color = "red"],
     [RenderInput(50, 30, 3, 5, <<>>, <<>>, FALSE) EXCEPT !.color = "#00f"]}

RenderInputs ==
    PlainInputs \cup MaskedInputs \cup {ElevenInput, EmptyInput} \cup InvalidInputs
        \cup ColorInputs

\* img.onload is entered: the canvas is cleared, the image drawn and
\* overlayHexGrid called with the image size (App.tsx 729-732)
RenderInit ==
    /\ \E in \in RenderInputs : render = in
    /\ pc = "overlayOuter"
    /\ ov = OverlayEntry(render.ppm, render.miles)
    /\ visited = <<>>
    /\ cg = ComputeEntry(render.ppm, render.miles)
    /\ hexes = <<>>
    /\ counts = [rowCount |-> 0, colCount |-> 0]
    /\ annotated = <<>>
    /\ ctx = CtxEntry(render.color)
    /\ finished = <<>>
    /\ PipIdle
    /\ UiIdle

RenderNext ==
    \/ OverlayRow
    \/ OverlayHex
    \/ OverlayRowEnd
    \/ OverlayReturn
    \/ ComputeRow
    \/ ComputeHex
    \/ ComputeRowEnd
    \/ ComputeReturn
    \/ AnnotateHex
    \/ AnnotateReturn

SpecRender == RenderInit /\ [][RenderNext]_vars

\* the renders followed to their end: an image without width rendered with
\* coordinates, an image without area, and a small image under hexes of 100
\* pixels with coordinates; the polygons have no part in the loops' tests
FairInputs ==
    {EmptyInput,
     RenderInput(0, 0, 8, 4, <<>>, <<>>, FALSE),
     RenderInput(20, 10, 10, 10, <<>>, <<>>, TRUE)}
FairInit ==
    /\ \E in \in FairInputs : render = in
    /\ pc = "overlayOuter"
    /\ ov = OverlayEntry(render.ppm, render.miles)
    /\ visited = <<>>
    /\ cg = ComputeEntry(render.ppm, render.miles)
    /\ hexes = <<>>
    /\ counts = [rowCount |-> 0, colCount |-> 0]
    /\ annotated = <<>>
    /\ ctx = CtxEntry(render.color)
    /\ finished = <<>>
    /\ PipIdle
    /\ UiIdle
\* img.onload is one synchronous run: a statement that can run next does run
SpecRenderFair == FairInit /\ [][RenderNext]_vars /\ WF_vars(RenderNext)

-----------------------------------------------------------------------------
(* img.onload run again and again: each call of overlayHexGrid, computeHexGrid *)
(* and annotateHexCoords starts from its own fresh locals                     *)

\* the renders that are repeated, and how many outcomes are kept
AgainInputs ==
    {RenderInput(40, 40, 8, 4, <<ExcludeA>>, <<>>, FALSE),
     RenderInput(40, 40, 8, 4, <<ExcludeL>>, <<>>, TRUE),
     [RenderInput(50, 30, 3, 5, <<>>, <<>>, FALSE) EXCEPT !.color = "#00f"]}
MaxRenders == 2

\* what a finished render has put on the canvas: the hexes stroked and the
\* labels written
Outcome ==
    [accepted |-> {<<visited[k].row, visited[k].col, visited[k].points>> :
                      k \in {n \in 1..Len(visited) : visited[n].stroked}},
     labels |-> {<<annotated[k].row, annotated[k].col, annotated[k].text, annotated[k].at>> :
                      k \in {n \in 1..Len(annotated) : annotated[n].labeled}}]

\* mutant of EnterRender: the row counter of overlayHexGrid outlives the call
EnterRenderKeepingRow(in) ==
    /\ render' = in
    /\ pc' = "overlayOuter"
    /\ ov' = [OverlayEntry(in.ppm, in.miles) EXCEPT !.row = ov.row]
    /\ visited' = <<>>
    /\ cg' = ComputeEntry(in.ppm, in.miles)
    /\ hexes' = <<>>
    /\ counts' = [rowCount |-> 0, colCount |-> 0]
    /\ annotated' = <<>>
    /\ ctx' = CtxEntry(in.color)

\* img.onload is entered with input in: row, y, x, the counters, points and hexes
\* are locals of the functions called, made anew by each call
\* (App.tsx 504-505, 516-517, 522, 583-584, 589, 625)
EnterRender(in) ==
    /\ render' = in
    /\ pc' = "overlayOuter"
    /\ ov' = OverlayEntry(in.ppm, in.miles)
    /\ visited' = <<>>
    /\ cg' = ComputeEntry(in.ppm, in.miles)
    /\ hexes' = <<>>
    /\ counts' = [rowCount |-> 0, colCount |-> 0]
    /\ annotated' = <<>>
    /\ ctx' = CtxEntry(in.color)

\* a render has finished and the next img.onload runs, with input in
RenderAgain(in) ==
    /\ pc = "done"
    /\ Len(finished) < MaxRenders
    /\ finished' = Append(finished, [input |-> render, outcome |-> Outcome])
    /\ EnterRender(in)
    /\ UNCHANGED <<pipVars, uiVars>>

TwiceInit == RenderInit /\ render \in AgainInputs

TwiceNext ==
    \/ OverlayRow
    \/ OverlayHex
    \/ OverlayRowEnd
    \/ OverlayReturn
    \/ ComputeRow
    \/ ComputeHex
    \/ ComputeRowEnd
    \/ ComputeReturn
    \/ AnnotateHex
    \/ AnnotateReturn
    \/ \E in \in AgainInputs : RenderAgain(in)

SpecTwice == TwiceInit /\ [][TwiceNext]_vars

\* overlayHexGrid called again and again on one image and scale with other
\* polygon sets: the exclude and include lists the renders are given
SkipLists == {<<>>, <<ExcludeA>>, <<ExcludeA, ExcludeTri>>}
IncludeLists == {<<>>, <<IncludeA>>, <<ExcludeA>>, <<ExcludeA, ExcludeTri>>}
MaskInputs ==
    {RenderInput(40, 40, 8, 4, skip, include, FALSE) :
        skip \in SkipLists, include \in IncludeLists}

MaskInit ==
    /\ \E in \in MaskInputs : render = in
    /\ pc = "overlayOuter"
    /\ ov = OverlayEntry(render.ppm, render.miles)
    /\ visited = <<>>
    /\ cg = ComputeEntry(render.ppm, render.miles)
    /\ hexes = <<>>
    /\ counts = [rowCount |-> 0, colCount |-> 0]
    /\ annotated = <<>>
    /\ ctx = CtxEntry(render.color)
    /\ finished = <<>>
    /\ PipIdle
    /\ UiIdle

MaskNext ==
    \/ OverlayRow
    \/ OverlayHex
    \/ OverlayRowEnd
    \/ OverlayReturn
    \/ \E in \in MaskInputs : RenderAgain(in)

SpecMask == MaskInit /\ [][MaskNext]_vars

-----------------------------------------------------------------------------
(* The App component: polygon editing and render requests *)

\* the outlines traced in Draw mode, and the points clicked
Square == Rect(0, 0, 8, 8)
Wedge == <<PixelPt(8, 0), PixelPt(16, 0), PixelPt(16, 8)>>
Outlines == {Square, Wedge}
ClickPoints ==
    {PixelPt(0, 0), PixelPt(8, 0), PixelPt(8, 8), PixelPt(0, 8),
     PixelPt(16, 0), PixelPt(16, 8),
     PixelPt(6, 2), PixelPt(2, 6), PixelPt(12, 2), PixelPt(20, 20)}
MaxPolys == 2
MaxPending == 1
MaxImages == 2

\* mutant of finalize: the list is added whatever its length
finalizeAny(vertexList, polygonList, identity) ==
    [polygons |-> Append(polygonList, [id |-> identity, points |-> vertexList]),
     vertices |-> <<>>,
     nextPolygon |-> identity + 1]

\* mutant of finalize: the new polygon is put before the earlier ones
finalizeFirst(vertexList, polygonList, identity) ==
    IF Len(vertexList) >= 3
    THEN [polygons |-> <<[id |-> identity, points |-> vertexList]>> \o polygonList,
          vertices |-> <<>>,
          nextPolygon |-> identity + 1]
    ELSE [polygons |-> polygonList, vertices |-> <<>>, nextPolygon |-> identity]

\* finalize: the state it sets, from the state of the render it belongs to
finalize(vertexList, polygonList, identity) ==
    IF Len(vertexList) >= 3
    THEN [polygons |-> Append(polygonList, [id |-> identity, points |-> vertexList]),
          vertices |-> <<>>,
          nextPolygon |-> identity + 1]
    ELSE [polygons |-> polygonList, vertices |-> <<>>, nextPolygon |-> identity]

\* the Finalize button, shown while vertices.length > 0, and the check mark
\* shown over a draft of three or more points
Finalize ==
    /\ imageFile # 0
    /\ Len(vertices) > 0
    /\ LET f == finalize(vertices, polygons, nextPolygon)
       IN  /\ polygons' = f.polygons
           /\ vertices' = f.vertices
           /\ nextPolygon' = f.nextPolygon
    /\ UNCHANGED <<imageFile, tool, selectedPolygons, shouldDrawCoordinates,
                   downloadUrl, pending, canvas>>
    /\ UNCHANGED outsideUi

\* mutant of ChangeTool: the tool changes and the draft is left as it is
ChangeToolKeepingDraft(newTool) ==
    /\ imageFile # 0
    /\ newTool \in {"select", "delete"} => Len(polygons) > 0
    /\ tool' = IF tool = newTool THEN "null" ELSE newTool
    /\ UNCHANGED <<imageFile, polygons, vertices, nextPolygon, selectedPolygons,
                   shouldDrawCoordinates, downloadUrl, pending, canvas>>
    /\ UNCHANGED outsideUi

\* changeTool(newTool), from the toolbar; the Select and Delete buttons are
\* disabled while polygons is empty
ChangeTool(newTool) ==
    /\ imageFile # 0
    /\ newTool \in {"select", "delete"} => Len(polygons) > 0
    /\ LET leavesDraw == IF tool = newTool THEN newTool = "draw"
                         ELSE tool = "draw" /\ newTool # "draw"
           f == IF leavesDraw THEN finalize(vertices, polygons, nextPolygon)
                ELSE [polygons |-> polygons, vertices |-> vertices,
                      nextPolygon |-> nextPolygon]
       IN  /\ polygons' = f.polygons
           /\ vertices' = f.vertices
           /\ nextPolygon' = f.nextPolygon
    /\ tool' = IF tool = newTool THEN "null" ELSE newTool
    /\ UNCHANGED <<imageFile, selectedPolygons, shouldDrawCoordinates,
                   downloadUrl, pending, canvas>>
    /\ UNCHANGED outsideUi

\* mutant of NotContaining: only the first polygon that contains p is left out
NotContainingFirst(p, list) ==
    LET hits == {k \in 1..Len(list) : pointInPolygon(p, list[k].points)}
    IN  IF hits = {} THEN list
        ELSE LET first == CHOOSE k \in hits : \A m \in hits : k <= m
             IN  SubSeq(list, 1, first - 1) \o SubSeq(list, first + 1, Len(list))

\* polygons.filter(poly => pointInPolygon({x, y}, poly)) and its complement
Containing(p, list) == SelectSeq(list, LAMBDA poly : pointInPolygon(p, poly.points))
NotContaining(p, list) == SelectSeq(list, LAMBDA poly : ~pointInPolygon(p, poly.points))
\* copyOfSelectedPolygons.includes(poly)
Includes(list, poly) == \E k \in 1..Len(list) : list[k] = poly

RECURSIVE ToggleEachAdd(_, _, _)
\* mutant of ToggleEach: a clicked polygon is pushed when it is not in the
\* copy and never spliced out
ToggleEachAdd(copy, clicked, k) ==
    IF k > Len(clicked) THEN copy
    ELSE IF ~Includes(copy, clicked[k])
         THEN ToggleEachAdd(Append(copy, clicked[k]), clicked, k + 1)
         ELSE ToggleEachAdd(copy, clicked, k + 1)

RECURSIVE ToggleEach(_, _, _)
\* clickedPolygons.forEach from index k on: push a polygon that is not in the
\* copy, splice out one that is
ToggleEach(copy, clicked, k) ==
    IF k > Len(clicked) THEN copy
    ELSE IF ~Includes(copy, clicked[k])
         THEN ToggleEach(Append(copy, clicked[k]), clicked, k + 1)
         ELSE ToggleEach(SelectSeq(copy, LAMBDA q : q # clicked[k]), clicked, k + 1)

\* the draft may take point p: it keeps to one of the outlines, and fewer than
\* MaxPolys polygons have been made
MayDraw(p) ==
    /\ nextPolygon < MaxPolys
    /\ \E o \in Outlines :
          /\ Len(vertices) < Len(o)
          /\ SubSeq(o, 1, Len(vertices) + 1) = Append(vertices, p)

\* mutant of CanvasClick: a Delete click leaves the selection as it is
CanvasClickKeepingSelection(p) ==
    /\ imageFile # 0
    /\ tool = "draw" => MayDraw(p)
    /\ polygons' = IF tool = "delete" THEN NotContaining(p, polygons) ELSE polygons
    /\ selectedPolygons' =
          IF tool = "select"
          THEN LET copy == ToggleEach(OrEmpty(selectedPolygons),
                                      Containing(p, polygons), 1)
               IN  IF Len(copy) > 0 THEN Some(copy) ELSE Null
          ELSE selectedPolygons
    /\ vertices' = IF tool = "draw" THEN Append(vertices, p) ELSE vertices
    /\ UNCHANGED <<imageFile, tool, shouldDrawCoordinates, downloadUrl,
                   nextPolygon, pending, canvas>>
    /\ UNCHANGED outsideUi

\* handleCanvasClick with the click scaled to canvas point p
CanvasClick(p) ==
    /\ imageFile # 0
    /\ tool = "draw" => MayDraw(p)
    /\ polygons' = IF tool = "delete" THEN NotContaining(p, polygons) ELSE polygons
    /\ selectedPolygons' =
          IF tool = "delete"
          THEN IF selectedPolygons.isNull THEN Null
               ELSE Some(NotContaining(p, selectedPolygons.list))
          ELSE IF tool = "select"
          THEN LET copy == ToggleEach(OrEmpty(selectedPolygons),
                                      Containing(p, polygons), 1)
               IN  IF Len(copy) > 0 THEN Some(copy) ELSE Null
          ELSE selectedPolygons
    /\ vertices' = IF tool = "draw" THEN Append(vertices, p) ELSE vertices
    /\ UNCHANGED <<imageFile, tool, shouldDrawCoordinates, downloadUrl,
                   nextPolygon, pending, canvas>>
    /\ UNCHANGED outsideUi

\* the state a handleGenerate of the current render closes over, for image file
\* image and check box value coordinates; of tool, which only decides whether
\* img.onload redraws polyCanvas, no record is kept
Closure(image, coordinates) ==
    [imageFile |-> image, polygons |-> polygons,
     selectedPolygons |-> selectedPolygons, vertices |-> vertices,
     shouldDrawCoordinates |-> coordinates]

\* handleGenerate up to img.src = ...: returns at once without an image file
handleGenerate(image, coordinates) ==
    IF image = 0 THEN pending ELSE Append(pending, Closure(image, coordinates))

\* the Generate button, disabled while a draft exists or no image is chosen;
\* followed while fewer than room loads are pending
GenerateWithin(room) ==
    /\ imageFile # 0
    /\ vertices = <<>>
    /\ Len(pending) < room
    /\ pending' = handleGenerate(imageFile, shouldDrawCoordinates)
    /\ UNCHANGED <<imageFile, tool, vertices, polygons, selectedPolygons,
                   shouldDrawCoordinates, downloadUrl, nextPolygon, canvas>>
    /\ UNCHANGED outsideUi

Generate == GenerateWithin(MaxPending)

\* handleFileChange with a file chosen, and the effect on [imageFile,
\* shouldDrawCoordinates] that follows the render
HandleFileChangeWithin(room) ==
    /\ imageFile < MaxImages
    /\ Len(pending) < room
    /\ imageFile' = imageFile + 1
    /\ downloadUrl' = <<>>
    /\ pending' = handleGenerate(imageFile + 1, shouldDrawCoordinates)
    /\ UNCHANGED <<tool, vertices, polygons, selectedPolygons,
                   shouldDrawCoordinates, nextPolygon, canvas>>
    /\ UNCHANGED outsideUi

HandleFileChange == HandleFileChangeWithin(MaxPending)

\* handlePaste with an image on the clipboard, and the same effect
HandlePasteWithin(room) ==
    /\ imageFile < MaxImages
    /\ Len(pending) < room
    /\ imageFile' = imageFile + 1
    /\ pending' = handleGenerate(imageFile + 1, shouldDrawCoordinates)
    /\ UNCHANGED <<tool, vertices, polygons, selectedPolygons,
                   shouldDrawCoordinates, downloadUrl, nextPolygon, canvas>>
    /\ UNCHANGED outsideUi

HandlePaste == HandlePasteWithin(MaxPending)

\* the Show Coordinates check box, and the same effect
SetShouldDrawCoordinatesWithin(room) ==
    /\ imageFile # 0
    /\ Len(pending) < room
    /\ shouldDrawCoordinates' = ~shouldDrawCoordinates
    /\ pending' = handleGenerate(imageFile, ~shouldDrawCoordinates)
    /\ UNCHANGED <<imageFile, tool, vertices, polygons, selectedPolygons,
                   downloadUrl, nextPolygon, canvas>>
    /\ UNCHANGED outsideUi

SetShouldDrawCoordinates == SetShouldDrawCoordinatesWithin(MaxPending)

\* mutant of MaskArguments: the selected polygons are taken out of the
\* exclude set
MaskArgumentsUnselected(c) ==
    [polygonsToSkip |->
        SelectSeq(c.polygons, LAMBDA q : ~Includes(OrEmpty(c.selectedPolygons), q)),
     polygonsToInclude |-> OrEmpty(c.selectedPolygons)]

\* the polygon arguments of overlayHexGrid and of annotateHexCoords in the
\* img.onload with closure c: polygons, selectedPolygons ?? []
MaskArguments(c) ==
    [polygonsToSkip |-> c.polygons,
     polygonsToInclude |-> OrEmpty(c.selectedPolygons)]

\* pending without its element i
Without(list, i) == SubSeq(list, 1, i - 1) \o SubSeq(list, i + 1, Len(list))

\* mutant of OnloadStatements: the download URL is taken before the grid is
\* stroked
OnloadStatementsUrlEarly(c) ==
    <<"clearRect", "drawImage", "toDataURL", "overlayHexGrid">>
        \o (IF c.shouldDrawCoordinates THEN <<"annotateHexCoords">> ELSE <<>>)

\* the statements of img.onload that act on mapCanvas, in the order of the
\* code, for the closure c of its handleGenerate (App.tsx 729-746)
OnloadStatements(c) ==
    <<"clearRect", "drawImage", "overlayHexGrid">>
        \o (IF c.shouldDrawCoordinates THEN <<"annotateHexCoords">> ELSE <<>>)
        \o <<"toDataURL">>

\* one statement of img.onload with closure c, run on s = [canvas, url]:
\* clearRect empties the canvas, drawImage, overlayHexGrid and
\* annotateHexCoords paint on what is there, toDataURL copies what is there
Statement(op, c, s) ==
    IF op = "clearRect"
    THEN [s EXCEPT !.canvas = [BlankCanvas EXCEPT !.ops = <<op>>]]
    ELSE IF op = "drawImage"
    THEN [s EXCEPT !.canvas.image = c.imageFile, !.canvas.ops = Append(@, op)]
    ELSE IF op = "overlayHexGrid"
    THEN [s EXCEPT !.canvas.overlay = Append(@, MaskArguments(c)),
                   !.canvas.ops = Append(@, op)]
    ELSE IF op = "annotateHexCoords"
    THEN [s EXCEPT !.canvas.annotate = Append(@, MaskArguments(c)),
                   !.canvas.ops = Append(@, op)]
    ELSE [s EXCEPT !.url = <<s.canvas>>]

RECURSIVE RunOnload(_, _, _, _)
\* the statements from index k on, run in order
RunOnload(statements, k, c, s) ==
    IF k > Len(statements) THEN s
    ELSE RunOnload(statements, k + 1, c, Statement(statements[k], c, s))

\* img.onload of the pending request i: the canvas is cleared, the image
\* drawn, overlayHexGrid called, annotateHexCoords called when the check box was
\* set, and the download URL taken from the canvas
ImageLoad(i) ==
    /\ i \in 1..Len(pending)
    /\ LET after == RunOnload(OnloadStatements(pending[i]), 1, pending[i],
                              [canvas |-> canvas, url |-> downloadUrl])
       IN  /\ canvas' = after.canvas
           /\ downloadUrl' = after.url
    /\ pending' = Without(pending, i)
    /\ UNCHANGED <<imageFile, tool, vertices, polygons, selectedPolygons,
                   shouldDrawCoordinates, nextPolygon>>
    /\ UNCHANGED outsideUi

Init == UiIdle /\ PipIdle /\ RenderIdle

Next ==
    \/ Finalize
    \/ \E newTool \in {"select", "draw", "delete"} : ChangeTool(newTool)
    \/ \E p \in ClickPoints : CanvasClick(p)
    \/ Generate
    \/ HandleFileChange
    \/ HandlePaste
    \/ SetShouldDrawCoordinates
    \/ \E i \in 1..MaxPending : ImageLoad(i)

Spec == Init /\ [][Next]_vars

\* the polygon editing of App alone: an image is chosen and loaded, and the
\* toolbar, the canvas clicks and finalize follow in any order
EditNext ==
    \/ Finalize
    \/ \E newTool \in {"select", "draw", "delete"} : ChangeTool(newTool)
    \/ \E p \in ClickPoints : CanvasClick(p)
    \/ HandleFileChange
    \/ \E i \in 1..MaxPending : ImageLoad(i)

SpecEdit == Init /\ [][EditNext]_vars

\* the render requests of App alone, with up to MaxLoads image loads pending
\* at once: each img.onload runs when its image has loaded, in any order
MaxLoads == 3
LoadsNext ==
    \/ GenerateWithin(MaxLoads)
    \/ HandleFileChangeWithin(MaxLoads)
    \/ HandlePasteWithin(MaxLoads)
    \/ SetShouldDrawCoordinatesWithin(MaxLoads)
    \/ \E i \in 1..MaxLoads : ImageLoad(i)

SpecLoads == Init /\ [][LoadsNext]_vars

-----------------------------------------------------------------------------
(* Claims about pointInPolygon, under SpecPip *)

\* the integer pixel coordinate of a number of the pointInPolygon inputs
Px(n) == n[1] \div 8
\* the cyclic predecessor of index i in vs
PredIdx(i) == IF i = 1 THEN Len(vs) ELSE i - 1
\* edge (vs[j], vs[i]) straddles the height of point and point lies strictly
\* left of the edge's x-intercept X = xi + (xj - xi)(y - yi)/(yj - yi):
\* x - xi < n/d, both sides multiplied by d*d > 0
CrossingAt(i) ==
    LET xi == Px(vs[i].x)
        yi == Px(vs[i].y)
        xj == Px(vs[PredIdx(i)].x)
        yj == Px(vs[PredIdx(i)].y)
        x == Px(point.x)
        y == Px(point.y)
        d == yj - yi
        n == (xj - xi) * (y - yi)
    IN  /\ (yi > y) # (yj > y)
        /\ (x - xi) * d * d < n * d
Crossings == {i \in 1..Len(vs) : CrossingAt(i)}

\* C2: every value pointInPolygon returns is the even-odd parity of the edge
\* crossings: true exactly when the number of crossing edges is odd.
ThmC2 == \A k \in 1..Len(results) : results[k] = (Cardinality(Crossings) % 2 = 1)
WitC2 == Len(results) > 0 /\ Cardinality(Crossings) = 2 /\ Len(vs) = 3

IsRect ==
    /\ Len(vs) = 4
    /\ vs[1].y = vs[2].y /\ vs[2].x = vs[3].x
    /\ vs[3].y = vs[4].y /\ vs[4].x = vs[1].x
    /\ Px(vs[1].x) < Px(vs[3].x)
    /\ Px(vs[1].y) < Px(vs[3].y)
StrictlyInsideRect ==
    /\ Px(vs[1].x) < Px(point.x) /\ Px(point.x) < Px(vs[3].x)
    /\ Px(vs[1].y) < Px(point.y) /\ Px(point.y) < Px(vs[3].y)
StrictlyOutsideRect ==
    \/ Px(point.x) < Px(vs[1].x) \/ Px(point.x) > Px(vs[3].x)
    \/ Px(point.y) < Px(vs[1].y) \/ Px(point.y) > Px(vs[3].y)

\* C3: for a rectangle [(a,b),(c,b),(c,d),(a,d)] with a < c and b < d every
\* call returns true for a point strictly inside, false for a point strictly
\* outside, and for any point (boundary included) all calls return the same.
ThmC3 ==
    IsRect =>
        /\ StrictlyInsideRect => \A k \in 1..Len(results) : results[k]
        /\ StrictlyOutsideRect => \A k \in 1..Len(results) : ~results[k]
        /\ \A k, m \in 1..Len(results) : results[k] = results[m]
\* the square of spec.md with (5,5) inside, called twice
WitC3 ==
    /\ vs = Rect(0, 0, 10, 10)
    /\ point = PixelPt(5, 5)
    /\ results = <<TRUE, TRUE>>
\* (15,5) is outside the same square
WitC3Outside ==
    /\ vs = Rect(0, 0, 10, 10)
    /\ point = PixelPt(15, 5)
    /\ results = <<FALSE, FALSE>>
\* the boundary point (10,5) is reached, with some result
WitC3Boundary ==
    /\ vs = Rect(0, 0, 10, 10)
    /\ point = PixelPt(10, 5)
    /\ Len(results) = MaxCalls

\* C4: for a vertex list of length 0, 1 or 2 every call returns false.
ThmC4 == Len(vs) < 3 => \A k \in 1..Len(results) : ~results[k]
\* a two-point list whose single edge, counted once, would be a crossing
WitC4 ==
    /\ Len(vs) = 2
    /\ Len(results) > 0
    /\ Intersect(point, vs[2], vs[1])

-----------------------------------------------------------------------------
(* Claims about one render, under SpecRender *)

\* overlayHexGrid has returned
OverlayFinished == pc \in {"computeOuter", "computeInner", "annotate", "done"}
\* computeHexGrid has returned
ComputeFinished == pc \in {"annotate", "done"}

\* a vertex fails when it is inside at least one exclude polygon and inside
\* no include polygon
VertexFails(v) ==
    /\ \E n \in 1..Len(render.polygonsToSkip) : pointInPolygon(v, render.polygonsToSkip[n])
    /\ ~\E n \in 1..Len(render.polygonsToInclude) :
            pointInPolygon(v, render.polygonsToInclude[n])
AllInsideOne(points, list) ==
    \E n \in 1..Len(list) : \A i \in 1..6 : pointInPolygon(points[i], list[n])
NoneInsideAny(points, list) ==
    \A n \in 1..Len(list) : \A i \in 1..6 : ~pointInPolygon(points[i], list[n])

\* C1: a hex is stroked by overlayHexGrid, and a hex is labeled by
\* annotateHexCoords, if and only if none of its six vertices fails, a vertex
\* failing when it is inside some exclude polygon and inside no include
\* polygon.  In particular a hex with all six vertices inside one exclude
\* polygon and none inside an include polygon is not accepted, and a hex
\* with all six vertices inside one include polygon is.
ThmC1 ==
    /\ \A k \in 1..Len(visited) :
          /\ visited[k].stroked <=> \A i \in 1..6 : ~VertexFails(visited[k].points[i])
          /\ (/\ AllInsideOne(visited[k].points, render.polygonsToSkip)
              /\ NoneInsideAny(visited[k].points, render.polygonsToInclude))
                => ~visited[k].stroked
          /\ AllInsideOne(visited[k].points, render.polygonsToInclude)
                => visited[k].stroked
    /\ \A k \in 1..Len(annotated) :
          /\ annotated[k].labeled <=> \A i \in 1..6 : ~VertexFails(annotated[k].points[i])
          /\ (/\ AllInsideOne(annotated[k].points, render.polygonsToSkip)
              /\ NoneInsideAny(annotated[k].points, render.polygonsToInclude))
                => ~annotated[k].labeled
          /\ AllInsideOne(annotated[k].points, render.polygonsToInclude)
                => annotated[k].labeled
\* a hex with all six vertices inside the exclude polygon, no include polygon
\* given, was enumerated and not stroked
WitC1 ==
    /\ render.polygonsToSkip = <<ExcludeA>>
    /\ render.polygonsToInclude = <<>>
    /\ \E k \in 1..Len(visited) :
          /\ AllInsideOne(visited[k].points, render.polygonsToSkip)
          /\ ~visited[k].stroked
\* the same hex with an include polygon over all six vertices was stroked
WitC1Included ==
    /\ render.polygonsToSkip = <<ExcludeA>>
    /\ render.polygonsToInclude = <<IncludeA>>
    /\ \E k \in 1..Len(visited) :
          /\ AllInsideOne(visited[k].points, render.polygonsToSkip)
          /\ AllInsideOne(visited[k].points, render.polygonsToInclude)
          /\ visited[k].stroked
\* a label hex with all six vertices excluded was gone through and not labeled,
\* another one was labeled
WitC1Label ==
    /\ \E k \in 1..Len(annotated) :
          /\ AllInsideOne(annotated[k].points, render.polygonsToSkip)
          /\ ~annotated[k].labeled
    /\ \E k \in 1..Len(annotated) : annotated[k].labeled

\* the grid parameters as spec.md section 3 and the claims state them
SpecRadius == Over(Num(render.ppm * render.miles), 2)
SpecWidth == Times(SpecRadius, 2)
SpecHeight == Sqrt3Times(SpecRadius)
SpecHSpacing == Over(Times(SpecWidth, 3), 4)
SpecVSpacing == SpecHeight

\* the parameters overlayHexGrid derives, and those its output shows: vertex 0
\* lies hexRadius right of the centre, vertices 1 and 5 are hexHeight apart,
\* columns are hSpacing apart and row counters vSpacing / 2
OverlayParams ==
    /\ hexRadius(render.ppm, render.miles) = SpecRadius
    /\ hexWidth(render.ppm, render.miles) = SpecWidth
    /\ hexHeight(render.ppm, render.miles) = SpecHeight
    /\ hSpacing(render.ppm, render.miles) = SpecHSpacing
    /\ vSpacing(render.ppm, render.miles) = SpecVSpacing
    /\ \A k \in 1..Len(visited) :
          /\ Sub(visited[k].points[1].x, visited[k].x) = SpecRadius
          /\ Sub(visited[k].points[2].y, visited[k].points[6].y) = SpecHeight
    /\ \A k \in 1..(Len(visited) - 1) :
          /\ visited[k + 1].row = visited[k].row
                => Sub(visited[k + 1].x, visited[k].x) = SpecHSpacing
          /\ visited[k + 1].row # visited[k].row
                => Sub(visited[k + 1].y, visited[k].y) = Over(SpecVSpacing, 2)
\* the parameters computeHexGrid derives, and the column pitch of its output
ComputeParams ==
    (pc \in {"computeOuter", "computeInner"} \/ ComputeFinished) =>
        /\ cgHexRadius(render.ppm, render.miles) = SpecRadius
        /\ cgHexWidth(render.ppm, render.miles) = SpecWidth
        /\ cgHexHeight(render.ppm, render.miles) = SpecHeight
        /\ cgHSpacing(render.ppm, render.miles) = SpecHSpacing
        /\ cgVSpacing(render.ppm, render.miles) = SpecVSpacing
        /\ \A k \in 1..(Len(hexes) - 1) :
              hexes[k + 1].row = hexes[k].row
                 => Sub(hexes[k + 1].x, hexes[k].x) = SpecHSpacing
\* the parameters annotateHexCoords derives, and the radius of its six points
AnnotateParams ==
    /\ ComputeFinished =>
          /\ anHexRadius(render.ppm, render.miles) = SpecRadius
          /\ anHexHeight(render.ppm, render.miles) = SpecHeight
    /\ \A k \in 1..Len(annotated) :
          Sub(annotated[k].points[1].x, annotated[k].x) = SpecRadius

\* C7 as claimed: in every grid computation of a render (overlayHexGrid,
\* computeHexGrid, annotateHexCoords) hexRadius = (pixelsPerMile * hexMiles) / 2,
\* hexWidth = 2 * hexRadius, hexHeight = sqrt(3) * hexRadius,
\* hSpacing = 0.75 * hexWidth and vSpacing = hexHeight.
CexC7 == OverlayParams /\ ComputeParams /\ AnnotateParams

\* y of row counter k and x of column c as C8 states them
SpecRowY(k) == Add(Neg(Over(SpecVSpacing, 2)), Times(Over(SpecVSpacing, 2), k))
SpecColX(c) == Times(SpecHSpacing, c)
\* rows are produced while y < height + vSpacing, columns while
\* x < width + 2 * hSpacing
\* (the test passes at every counter 0..k: y and x are linear in the counter,
\* so it is enough that it passes at 0 and at k)
RowProduced(k) ==
    \A j \in {0, k} : Less(SpecRowY(j), Add(Num(render.height), SpecVSpacing))
ColProduced(c) ==
    \A j \in {0, c} : Less(SpecColX(j), Add(Num(render.width), Times(SpecHSpacing, 2)))
VisitedPositions == {<<visited[k].row, visited[k].col>> : k \in 1..Len(visited)}
\* one more than the largest row counter, and column, enumerated
RowsSeen == Cardinality({visited[k].row : k \in 1..Len(visited)})
ColsSeen == Cardinality({visited[k].col : k \in 1..Len(visited)})

\* C8: the hex enumerated at row counter k and column c has unshifted
\* y = -vSpacing/2 + k * (vSpacing/2) and x = c * hSpacing; only positions whose
\* row passes y < height + vSpacing and whose column passes
\* x < width + 2 * hSpacing are enumerated, and once overlayHexGrid has returned
\* exactly those have been: the same columns in every row.
ThmC8 ==
    /\ \A k \in 1..Len(visited) :
          /\ visited[k].y = SpecRowY(visited[k].row)
          /\ visited[k].x = SpecColX(visited[k].col)
          /\ RowProduced(visited[k].row)
          /\ ColProduced(visited[k].col)
    /\ OverlayFinished =>
          VisitedPositions =
             {rc \in (0..RowsSeen) \X (0..ColsSeen) : RowProduced(rc[1]) /\ ColProduced(rc[2])}
WitC8 ==
    /\ OverlayFinished
    /\ render.width = 50
    /\ render.height = 30
    /\ render.ppm * render.miles = 15
    /\ Len(visited) = 56

\* the final centre of an enumerated hex as C9 states it
SpecCentre(h) ==
    LET rowShift == IF h.row % 2 = 0 THEN Zero ELSE Over(SpecVSpacing, 2)
        colShift == IF h.col % 2 = 1 THEN Over(SpecHeight, 2) ELSE Zero
    IN  Pt(h.x, Add(Add(h.y, rowShift), colShift))

\* C9: the six points of the hex at (row, column) are the vertices at
\* i * 60 degrees around (x, y + rowShift + colShift), with rowShift = 0 on
\* an even row counter and vSpacing/2 on an odd one, and colShift =
\* hexHeight/2 on the 2nd, 4th, ... column of the row and 0 on the others.
ThmC9 ==
    \A k \in 1..Len(visited) : \A i \in 0..5 :
        visited[k].points[i + 1] =
            Pt(Add(SpecCentre(visited[k]).x, RCos(SpecRadius, i)),
               Add(SpecCentre(visited[k]).y, RSin(SpecRadius, i)))
\* hexes of all four parity combinations have been enumerated
WitC9 ==
    \A rp \in {0, 1} : \A cp \in {0, 1} :
        \E k \in 1..Len(visited) : visited[k].row % 2 = rp /\ visited[k].col % 2 = cp

\* the centre of the outline stroked for h: midway between vertices 0 and 3
StrokeCentre(h) ==
    Pt(Over(Add(h.points[1].x, h.points[4].x), 2),
       Over(Add(h.points[1].y, h.points[4].y), 2))
\* pixel (px, py) is within hexRadius of the centre of stroked hex h
PixelNear(px, py, h) ==
    LET c == StrokeCentre(h)
        dx == Sub(Num(px), c.x)
        dy == Sub(Num(py), c.y)
    IN  /\ h.stroked
        /\ dx[1] <= SpecRadius[1]
        /\ 0 - dx[1] <= SpecRadius[1]
        /\ LessEq(Add(Mul(dx, dx), Mul(dy, dy)), Mul(SpecRadius, SpecRadius))
\* the render of spec.md section 8, property 4
CoverageInput == RenderInput(100, 100, 10, 1, <<>>, <<>>, FALSE)

\* C10: once overlayHexGrid has returned for width = 100, height = 100,
\* pixelsPerMile = 10, hexMiles = 1 and no polygons, every pixel of
\* [0,100) x [0,100) is within hexRadius of the centre of a stroked hex.
ThmC10 ==
    (OverlayFinished /\ render = CoverageInput) =>
        \A px \in 0..99 : \A py \in 0..99 :
            \E k \in 1..Len(visited) : PixelNear(px, py, visited[k])
WitC10 ==
    /\ OverlayFinished
    /\ render = CoverageInput
    /\ Len(visited) = 432
    /\ \A k \in 1..Len(visited) : visited[k].stroked

-----------------------------------------------------------------------------
(* Claims about the App component, under Spec *)

\* the polygon arguments of the overlayHexGrid and annotateHexCoords calls of
\* the last img.onload
CallsMade == {canvas.overlay[k] : k \in 1..Len(canvas.overlay)}
                \cup {canvas.annotate[k] : k \in 1..Len(canvas.annotate)}
HandedOver(call) ==
    {call.polygonsToSkip[k] : k \in 1..Len(call.polygonsToSkip)}
        \cup {call.polygonsToInclude[k] : k \in 1..Len(call.polygonsToInclude)}

\* C5: every polygon of the finalized list has at least 3 vertices, and every
\* polygon handed to overlayHexGrid or annotateHexCoords has at least 3
\* vertices and is a finalized array, not the in-progress one (whose
\* identity, were it finalized, would be nextPolygon).
ThmC5 ==
    /\ \A k \in 1..Len(polygons) : Len(polygons[k].points) >= 3
    /\ \A call \in CallsMade : \A q \in HandedOver(call) :
          /\ Len(q.points) >= 3
          /\ q.id < nextPolygon
\* a render with labels has handed over the finalized polygons, one of four
\* points among them, and a draft of fewer than 3 points is in progress
WitC5 ==
    /\ Len(vertices) \in {1, 2}
    /\ Len(polygons) = 1
    /\ Len(polygons[1].points) = 4
    /\ canvas.overlay = <<MaskArguments([polygons |-> polygons,
                                         selectedPolygons |-> selectedPolygons])>>
    /\ canvas.annotate = canvas.overlay
\* a request made while a draft was in progress is waiting for its image
WitC5Draft ==
    /\ Len(pending) = 1
    /\ Len(pending[1].vertices) = 2
    /\ Len(pending[1].polygons) = 1

\* a step in which an img.onload ran, and one in which handleGenerate set one up
LoadStep == Len(pending') < Len(pending)
RequestStep == Len(pending') > Len(pending)

\* C6 as claimed: in every img.onload the exclude set given to overlayHexGrid
\* is the list polygons as it is at that moment and the include set is the
\* selection as it is at that moment, empty when nothing is selected.
CexC6 ==
    [][LoadStep =>
          canvas'.overlay = <<[polygonsToSkip |-> polygons',
                               polygonsToInclude |-> OrEmpty(selectedPolygons')]>>]_vars

\* C6, amended: handleGenerate closes over the list polygons and the selection
\* as they are when the render is requested, and the img.onload of that request
\* gives overlayHexGrid, and annotateHexCoords when it is called, exactly that
\* list as the exclude set and that selection, or the empty list for null, as
\* the include set.
ThmC6 ==
    [][/\ RequestStep =>
            /\ pending'[Len(pending')].polygons = polygons
            /\ pending'[Len(pending')].selectedPolygons = selectedPolygons
       /\ LoadStep =>
            \E i \in 1..Len(pending) :
                /\ pending' = Without(pending, i)
                /\ canvas'.overlay =
                      <<[polygonsToSkip |-> pending[i].polygons,
                         polygonsToInclude |->
                            IF pending[i].selectedPolygons.isNull THEN <<>>
                            ELSE pending[i].selectedPolygons.list]>>
                /\ canvas'.annotate \in {<<>>, canvas'.overlay}]_vars
\* a render was given two polygons to exclude, the second of them selected
WitC6 ==
    /\ canvas.overlay # <<>>
    /\ Len(canvas.overlay[1].polygonsToSkip) = 2
    /\ canvas.overlay[1].polygonsToInclude = <<canvas.overlay[1].polygonsToSkip[2]>>
\* a render with nothing selected was given the empty include set
WitC6Unselected ==
    /\ canvas.overlay # <<>>
    /\ selectedPolygons.isNull
    /\ canvas.overlay[1].polygonsToSkip = polygons
    /\ Len(polygons) = 2
    /\ canvas.overlay[1].polygonsToInclude = <<>>
\* the lists changed between the request and its img.onload
WitC6Stale ==
    /\ Len(pending) = 1
    /\ pending[1].polygons # polygons
    /\ pending[1].selectedPolygons # selectedPolygons

-----------------------------------------------------------------------------
(* Claims about the labels, under SpecRender *)

\* the largest row index and the largest column index of the enumerated grid
LargestRow == MaxOf({hexes[k].row : k \in 1..Len(hexes)})
LargestCol == MaxOf({hexes[k].col : k \in 1..Len(hexes)})
\* floor(n / 2) of a natural number, without division
HalfOf(n) == CHOOSE m \in 0..n : 2 * m <= n /\ n < 2 * (m + 1)

LabelPositions == {<<annotated[k].row, annotated[k].col>> : k \in 1..Len(annotated)}
\* label hex a and outline hex v are the same hex: same six vertices, the label
\* at the centre of the outline, labeled exactly when stroked
SameHex(a, v) ==
    /\ a.points = v.points
    /\ a.at = StrokeCentre(v)
    /\ a.labeled = v.stroked

\* C12 as claimed: in a render with coordinates the label grid is the outline
\* grid: the same rows and columns, and every hex annotateHexCoords goes
\* through has the six vertices of a hex overlayHexGrid enumerated, its label
\* at that hex's centre, and is labeled exactly when that hex is stroked.
CexC12 ==
    pc = "done" /\ render.shouldDrawCoordinates =>
        /\ LabelPositions = VisitedPositions
        /\ \A k \in 1..Len(annotated) :
              \E m \in 1..Len(visited) : SameHex(annotated[k], visited[m])

\* pixelsPerMile <= 0 or hexMiles <= 0
InvalidScale == render.ppm <= 0 \/ render.miles <= 0
\* neither enumeration loop has been entered, and nothing was enumerated
NoLoopEntered ==
    /\ ov.row = -1
    /\ cg.row = -1
    /\ visited = <<>>
    /\ hexes = <<>>

\* C13 as claimed: with pixelsPerMile <= 0 or hexMiles <= 0 the render is
\* rejected before an enumeration loop is entered: no loop body runs, no hex
\* is stroked, and the render does not run on.
CexC13 == InvalidScale => NoLoopEntered /\ pc = "overlayOuter"

\* the image has no width or no height
EmptyImage == render.width = 0 \/ render.height = 0

\* C14 as claimed: for an image with width = 0 or height = 0 and a positive
\* scale overlayHexGrid strokes no hex and computeHexGrid returns no hex.
CexC14 ==
    (EmptyImage /\ ~InvalidScale) =>
        /\ \A k \in 1..Len(visited) : ~visited[k].stroked
        /\ hexes = <<>>

-----------------------------------------------------------------------------
(* Claims about repeated renders, under SpecTwice *)

\* C15: two renders with the same image size, scale, exclude set and include
\* set (and the same coordinates setting) stroke the same hexes and write the
\* same labels, whatever renders ran in between.
ThmC15 ==
    /\ \A i, j \in 1..Len(finished) :
          finished[i].input = finished[j].input
             => finished[i].outcome = finished[j].outcome
    /\ pc = "done" =>
          \A i \in 1..Len(finished) :
              finished[i].input = render => finished[i].outcome = Outcome
\* a masked render with labels has finished for the second time, another
\* render having run in between
WitC15 ==
    /\ pc = "done"
    /\ Len(finished) = 2
    /\ finished[1].input = render
    /\ finished[2].input # render
    /\ render.shouldDrawCoordinates
    /\ Outcome.labels # {}
    /\ \E k \in 1..Len(visited) : ~visited[k].stroked
    /\ \E k \in 1..Len(annotated) : ~annotated[k].labeled

-----------------------------------------------------------------------------
(* Claims about the drawing calls of overlayHexGrid, under SpecRender *)

\* the stroked hexes in the order of their enumeration
Accepted == SelectSeq(visited, LAMBDA h : h.stroked)
\* the n-th group of nine calls on ctx
CallGroup(n) == SubSeq(ctx.calls, 9 * (n - 1) + 1, 9 * n)

\* C16: the stroke colour is the outline colour and the line width 1 before
\* and at every hex; the calls on ctx are, for each accepted hex in turn and
\* for no other, beginPath, moveTo(vertex 0), lineTo(vertex 1), ..., lineTo
\* (vertex 5), closePath, stroke; so there are as many stroke calls as
\* accepted hexes.
ThmC16 ==
    /\ ctx.strokeStyle = render.color
    /\ ctx.lineWidth = 1
    /\ Len(ctx.calls) = 9 * Len(Accepted)
    /\ \A n \in 1..Len(Accepted) :
          /\ CallGroup(n)[1] = [op |-> "beginPath", args |-> <<>>]
          /\ CallGroup(n)[2] =
                [op |-> "moveTo",
                 args |-> <<Accepted[n].points[1].x, Accepted[n].points[1].y>>]
          /\ \A i \in 1..5 :
                CallGroup(n)[2 + i] =
                   [op |-> "lineTo",
                    args |-> <<Accepted[n].points[i + 1].x, Accepted[n].points[i + 1].y>>]
          /\ CallGroup(n)[8] = [op |-> "closePath", args |-> <<>>]
          /\ CallGroup(n)[9] = [op |-> "stroke", args |-> <<>>]
    /\ Cardinality({k \in 1..Len(ctx.calls) : ctx.calls[k].op = "stroke"})
          = Cardinality({k \in 1..Len(visited) : visited[k].stroked})
\* a render in red has finished with hexes stroked and hexes rejected
WitC16 ==
    /\ OverlayFinished
    /\ render.color = "red"
    /\ Len(Accepted) > 1
    /\ Len(Accepted) < Len(visited)
    /\ Len(ctx.calls) = 9 * Len(Accepted)

-----------------------------------------------------------------------------
(* Claims about the vertices of a hex, under SpecRender *)

\* the vector from the centre of hex h to its vertex i (i = 0..5)
Spoke(h, i) ==
    [x |-> Sub(h.points[i + 1].x, SpecCentre(h).x),
     y |-> Sub(h.points[i + 1].y, SpecCentre(h).y)]
\* the dot product and the cross product of two vectors
Dot(u, v) == Add(Mul(u.x, v.x), Mul(u.y, v.y))
Cross(u, v) == Sub(Mul(u.x, v.y), Mul(u.y, v.x))
RadiusSquared == Mul(SpecRadius, SpecRadius)

\* C17: for a positive scale, the six vertices of every hex overlayHexGrid
\* enumerates lie at distance r = hexRadius from its centre, vertex 0 is at
\* (cx + r, cy), and each next vertex is the previous one turned by +60
\* degrees about the centre (cos 60 = 1/2, sin 60 = sqrt(3)/2): vertex i is
\* (cx + r cos(i 60), cy + r sin(i 60)).
ThmC17 ==
    ~InvalidScale =>
        \A k \in 1..Len(visited) :
            /\ Spoke(visited[k], 0) = [x |-> SpecRadius, y |-> Zero]
            /\ \A i \in 0..5 :
                  LET u == Spoke(visited[k], i)
                      v == Spoke(visited[k], (i + 1) % 6)
                  IN  /\ Dot(u, u) = RadiusSquared
                      /\ Times(Dot(u, v), 2) = RadiusSquared
                      /\ Times(Cross(u, v), 2) = Sqrt3Times(RadiusSquared)
\* a hex of radius 16 with both shifts: its vertex 1 is (cx + 8, cy + 8 sqrt 3)
WitC17 ==
    /\ render.ppm * render.miles = 32
    /\ \E k \in 1..Len(visited) :
          /\ visited[k].row % 2 = 1
          /\ visited[k].col % 2 = 1
          /\ Spoke(visited[k], 1) = [x |-> Num(8), y |-> Sqrt3Times(Num(8))]

-----------------------------------------------------------------------------
(* Claims about the division in pointInPolygon, under SpecPip *)

\* the edges (vs[j], vs[i]), named by i, that pass (yi > y) !== (yj > y)
Straddling ==
    {i \in 1..Len(vs) :
        (Px(vs[i].y) > Px(point.y)) # (Px(vs[PredIdx(i)].y) > Px(point.y))}

\* C18: a call evaluates the division by yj - yi once for each edge that passes
\* the straddle test and for no other edge, every divisor it divides by is
\* non-zero, and an edge with yi = yj is never a crossing.
ThmC18 ==
    /\ Len(results) > 0 =>
          /\ Len(divisions) = Cardinality(Straddling)
          /\ \A k \in 1..Len(divisions) : divisions[k] # Zero
    /\ \A i \in 1..Len(vs) :
          vs[i].y = vs[PredIdx(i)].y
             => i \notin Straddling /\ ~Intersect(point, vs[i], vs[PredIdx(i)])
\* a call on a rectangle: the point is level with neither horizontal edge,
\* the two vertical edges straddle it and only they are divided
WitC18 ==
    /\ IsRect
    /\ StrictlyInsideRect
    /\ Len(results) > 0
    /\ Len(divisions) = 2

-----------------------------------------------------------------------------
(* Claims about termination, under SpecRenderFair *)

\* list holds its hexes in row-major order, each position once: it starts at
\* (0, 0); the next hex is the next column of the same row, further right, or
\* column 0 of the next row, further down (so that (row, col) grows strictly
\* along the list and no position comes twice)
RowMajor(list) ==
    /\ Len(list) > 0 => list[1].row = 0 /\ list[1].col = 0
    /\ \A k \in 1..(Len(list) - 1) :
          \/ /\ list[k + 1].row = list[k].row
             /\ list[k + 1].col = list[k].col + 1
             /\ Less(list[k].x, list[k + 1].x)
             /\ list[k + 1].y = list[k].y
          \/ /\ list[k + 1].row = list[k].row + 1
             /\ list[k + 1].col = 0
             /\ Less(list[k].y, list[k + 1].y)
\* the render has returned from its loops by their tests, short of the caps
Terminated ==
    /\ pc = "done"
    /\ ov.row + 1 < MaxRows
    /\ cg.row + 1 < MaxRows
    /\ Len(visited) < MaxHexes
    /\ Len(hexes) < MaxHexes

\* C19: for a positive scale and width, height >= 0, overlayHexGrid and
\* computeHexGrid visit their (row, column) positions in row-major order,
\* each once, and the render terminates.
ThmC19 ==
    /\ [](~InvalidScale => RowMajor(visited) /\ RowMajor(hexes))
    /\ (~InvalidScale) ~> Terminated
\* a render with coordinates has terminated after both enumerations
WitC19 ==
    /\ Terminated
    /\ ~InvalidScale
    /\ Len(visited) = 12
    /\ Len(hexes) = 127
    /\ Len(annotated) = 127


\* a step in which finalize ran: the Finalize button or check mark, or a
\* changeTool that leaves the draw tool
FinalizeRan ==
    \/ Finalize
    \/ \E newTool \in {"select", "draw", "delete"} :
          /\ ChangeTool(newTool)
          /\ IF tool = newTool THEN newTool = "draw"
                               ELSE tool = "draw" /\ newTool # "draw"
\* a click with the draw tool at point p
DrawClick(p) == tool = "draw" /\ CanvasClick(p)

\* C20: finalize appends a draft of at least 3 points as the last element of
\* polygons, its points in click order, and otherwise leaves polygons as it
\* was; either way the draft becomes empty and the earlier polygons, their
\* order and the selection stay as they were.
ThmC20 ==
    [][/\ \A p \in ClickPoints : DrawClick(p) => vertices' = Append(vertices, p)
       /\ FinalizeRan =>
             /\ IF Len(vertices) >= 3
                THEN /\ Len(polygons') = Len(polygons) + 1
                     /\ polygons'[Len(polygons')].points = vertices
                     /\ SubSeq(polygons', 1, Len(polygons)) = polygons
                ELSE polygons' = polygons
             /\ vertices' = <<>>
             /\ selectedPolygons' = selectedPolygons]_vars
\* the wedge, drawn after the square was finalized and selected, has been
\* finalized behind it
WitC20 ==
    /\ tool = "draw"
    /\ vertices = <<>>
    /\ Len(polygons) = 2
    /\ polygons[1].points = Square
    /\ polygons[2].points = Wedge
    /\ selectedPolygons = Some(<<polygons[1]>>)
\* a draft of two points is in progress beside a finalized, selected polygon
WitC20Short ==
    /\ Len(vertices) = 2
    /\ Len(polygons) = 1
    /\ ~selectedPolygons.isNull


\* the three tools of the toolbar
Tools == {"select", "draw", "delete"}

\* C21: whenever the tool is not Draw the draft is empty; choosing the active
\* tool again leaves no tool active; a step (a canvas click among them) adds
\* a vertex to the draft only while the tool is Draw.
ThmC21 ==
    /\ [](tool # "draw" => vertices = <<>>)
    /\ [][/\ \A t \in Tools : tool = t /\ ChangeTool(t) => tool' = "null"
          /\ Len(vertices') > Len(vertices) => tool = "draw"]_vars
\* the draw tool was left for the select tool after two polygons were made,
\* and no draft remains
WitC21 ==
    /\ tool = "select"
    /\ Len(polygons) = 2
    /\ vertices = <<>>
\* the active tool was chosen again: no tool is active beside one polygon
WitC21None ==
    /\ tool = "null"
    /\ Len(polygons) = 1
    /\ vertices = <<>>


\* the polygons of a list, and those of them that contain point p
Members(list) == {list[k] : k \in 1..Len(list)}
Hit(p, list) == {q \in Members(list) : pointInPolygon(p, q.points)}
\* the set a with the membership of every element of b flipped
Flip(a, b) == (a \ b) \cup (b \ a)
\* the setSelectedPolygons value of one more Select click at p after this step
Reselected(p) ==
    ToggleEach(OrEmpty(selectedPolygons'), Containing(p, polygons'), 1)

\* C22: a Select click at p flips the selection membership of exactly the
\* polygons that contain p, leaves polygons and the draft as they were, and a
\* second Select click at p restores the selected set.
ThmC22 ==
    [][\A p \in ClickPoints :
          tool = "select" /\ CanvasClick(p) =>
              /\ Members(OrEmpty(selectedPolygons')) =
                    Flip(Members(OrEmpty(selectedPolygons)), Hit(p, polygons))
              /\ Len(OrEmpty(selectedPolygons')) =
                    Cardinality(Members(OrEmpty(selectedPolygons')))
              /\ selectedPolygons'.isNull = (OrEmpty(selectedPolygons') = <<>>)
              /\ polygons' = polygons
              /\ vertices' = vertices
              /\ Members(Reselected(p)) = Members(OrEmpty(selectedPolygons))]_vars
\* of two polygons that both contain (6, 2), the first only is selected
\* while the select tool is active
WitC22 ==
    /\ tool = "select"
    /\ Len(polygons) = 2
    /\ Hit(PixelPt(6, 2), polygons) = Members(polygons)
    /\ selectedPolygons = Some(<<polygons[1]>>)


\* the place of polygon q in a list that holds it
Place(q, list) == CHOOSE k \in 1..Len(list) : list[k] = q
\* list b holds polygons of list a only, each once, in the order of list a
KeepsOrder(a, b) ==
    /\ Members(b) \subseteq Members(a)
    /\ \A i, j \in 1..Len(b) : i < j => Place(b[i], a) < Place(b[j], a)

\* C23: a Delete click at p removes from polygons and from the selection
\* exactly the polygons that contain p; the others stay in polygons in their
\* order and keep their selection status, and the draft is unchanged.
ThmC23 ==
    [][\A p \in ClickPoints :
          tool = "delete" /\ CanvasClick(p) =>
              /\ Members(polygons') = Members(polygons) \ Hit(p, polygons)
              /\ KeepsOrder(polygons, polygons')
              /\ Members(OrEmpty(selectedPolygons')) =
                    Members(OrEmpty(selectedPolygons))
                        \ Hit(p, OrEmpty(selectedPolygons))
              /\ vertices' = vertices]_vars
\* of two polygons made, the selected one was deleted and the other is left:
\* the selection is a list without elements
WitC23 ==
    /\ tool = "delete"
    /\ nextPolygon = 2
    /\ Len(polygons) = 1
    /\ selectedPolygons = Some(<<>>)
\* both polygons made have been deleted
WitC23Both ==
    /\ tool = "delete"
    /\ nextPolygon = 2
    /\ polygons = <<>>


\* the request whose img.onload ran in this step
Loaded(i) == i \in 1..Len(pending) /\ pending' = Without(pending, i)
\* what mapCanvas went through in a completed render, labels drawn or not
PaintOrder(labels) ==
    <<"clearRect", "drawImage", "overlayHexGrid">>
        \o (IF labels THEN <<"annotateHexCoords">> ELSE <<>>)

\* C24: in every completed img.onload the canvas is cleared, the image drawn,
\* the hex outlines stroked and the labels drawn (exactly when the request's
\* shouldDrawCoordinates is true), in this order, and the download URL is
\* taken after all of them; a download URL that is set holds the hex grid of
\* its render.
ThmC24 ==
    /\ [](downloadUrl # <<>> =>
            /\ Len(downloadUrl[1].overlay) = 1
            /\ downloadUrl[1].ops \in {PaintOrder(TRUE), PaintOrder(FALSE)})
    /\ [][LoadStep =>
            \E i \in 1..MaxPending :
                /\ Loaded(i)
                /\ canvas'.ops = PaintOrder(pending[i].shouldDrawCoordinates)
                /\ canvas'.image = pending[i].imageFile
                /\ (canvas'.annotate # <<>>) = pending[i].shouldDrawCoordinates
                /\ downloadUrl' = <<canvas'>>]_vars
\* a render of the second image with labels and one polygon to exclude has
\* completed, and the check box has been cleared since: the URL holds the
\* image, the grid and the labels
WitC24 ==
    /\ downloadUrl # <<>>
    /\ downloadUrl[1].ops = PaintOrder(TRUE)
    /\ downloadUrl[1].image = 2
    /\ Len(downloadUrl[1].overlay[1].polygonsToSkip) = 1
    /\ ~shouldDrawCoordinates
\* a render without labels has completed
WitC24Plain ==
    /\ downloadUrl # <<>>
    /\ downloadUrl[1].ops = PaintOrder(FALSE)
    /\ downloadUrl[1].annotate = <<>>


\* the hex visited last has the final centre of one visited before it
RepeatsCentre ==
    \E a \in 1..(Len(visited) - 1) :
        /\ <<visited[a].row, visited[a].col>> #
              <<visited[Len(visited)].row, visited[Len(visited)].col>>
        /\ StrokeCentre(visited[a]) = StrokeCentre(visited[Len(visited)])

\* C25 as claimed: in one call of overlayHexGrid with a positive scale no two
\* distinct (row, column) positions yield the same final hex centre; stated
\* of each hex when it is visited, against all visited before it.
CexC25 == ~InvalidScale => ~RepeatsCentre


\* the polygon arguments of the renders requested and not yet loaded
Requested == {MaskArguments(pending[k]) : k \in 1..Len(pending)}

\* C26: every selected polygon is one of the finalized polygons, and in every
\* render, requested or made, the include set is a subset of the exclude set.
ThmC26 ==
    /\ Members(OrEmpty(selectedPolygons)) \subseteq Members(polygons)
    /\ \A call \in CallsMade \cup Requested :
          Members(call.polygonsToInclude) \subseteq Members(call.polygonsToSkip)
\* the unselected one of two polygons was deleted; the selected one is left,
\* and a render made since was given it to exclude and to include
WitC26 ==
    /\ tool = "delete"
    /\ nextPolygon = 2
    /\ Len(polygons) = 1
    /\ selectedPolygons = Some(polygons)
    /\ canvas.overlay = <<[polygonsToSkip |-> polygons,
                           polygonsToInclude |-> polygons]>>


\* the polygons of list a are all in list b
Within(a, b) == \A k \in 1..Len(a) : \E n \in 1..Len(b) : a[k] = b[n]
\* every hex enumerated by the finished render was accepted
AllAccepted == \A k \in 1..Len(visited) : visited[k].stroked

\* C27: on one grid, a render whose exclude list holds at least the polygons
\* of an earlier render's and whose include list holds at most the earlier
\* one's accepts no hex the earlier one rejected; with an empty exclude list,
\* and with every exclude polygon also in the include list, every enumerated
\* hex is accepted.
ThmC27 ==
    pc = "done" =>
        /\ \A k \in 1..Len(finished) :
              /\ Within(finished[k].input.polygonsToSkip, render.polygonsToSkip)
              /\ Within(render.polygonsToInclude, finished[k].input.polygonsToInclude)
              => Outcome.accepted \subseteq finished[k].outcome.accepted
        /\ render.polygonsToSkip = <<>> => AllAccepted
        /\ Within(render.polygonsToSkip, render.polygonsToInclude) => AllAccepted
\* a render that excluded two polygons and included none is followed by one
\* that includes a polygon over the first of them: the second accepts hexes
\* the first rejected, and rejects others still
WitC27 ==
    /\ pc = "done"
    /\ Len(finished) = 1
    /\ finished[1].input.polygonsToSkip = <<ExcludeA, ExcludeTri>>
    /\ finished[1].input.polygonsToInclude = <<>>
    /\ render.polygonsToSkip = <<ExcludeA, ExcludeTri>>
    /\ render.polygonsToInclude = <<IncludeA>>
    /\ finished[1].outcome.accepted \subseteq Outcome.accepted
    /\ finished[1].outcome.accepted # Outcome.accepted
    /\ ~AllAccepted
\* a render with an empty exclude list is followed by one that excludes two
\* polygons: the second accepts fewer hexes
WitC27Exclude ==
    /\ pc = "done"
    /\ Len(finished) = 1
    /\ finished[1].input.polygonsToSkip = <<>>
    /\ render.polygonsToSkip = <<ExcludeA, ExcludeTri>>
    /\ render.polygonsToInclude = finished[1].input.polygonsToInclude
    /\ Outcome.accepted \subseteq finished[1].outcome.accepted
    /\ Outcome.accepted # finished[1].outcome.accepted


\* C28 as claimed: once all loads have completed, the canvas and the download
\* URL show the most recently requested render. Every change of the image
\* and of the check box requests a render of the new value, and Generate one
\* of the current values, so that render is of the current image, with labels
\* exactly when the check box is set.
CexC28 ==
    (pending = <<>> /\ canvas # BlankCanvas) =>
        /\ canvas.image = imageFile
        /\ (canvas.annotate # <<>>) = shouldDrawCoordinates
        /\ downloadUrl = <<canvas>>

=========================================================================
